---- MODULE Spec2Model ----
(***************************************************************************)
(* Model of the ADAT container reader (src/src/lib.rs).                    *)
(*                                                                         *)
(* The byte source is a sequence of bytes with one seek position.  A       *)
(* Package is mounted over it (header, table of contents, name index) and  *)
(* entries are then read on demand through the shared cursor.              *)
(***************************************************************************)
EXTENDS Integers, Sequences, FiniteSets, TLC

VARIABLES
    source,     \* the bytes behind the cursor (never written by the library)
    pos,        \* the cursor's seek position
    mounted,    \* TRUE while a Package borrows the cursor
    header,     \* Package.header
    entries,    \* Package.entries: trimmed name -> PackageEntry
    toc,        \* the Vec<PackageEntry> collected by the last mount
    lastCall,   \* the last API call and its argument
    lastResult, \* what that call returned
    lastIO,     \* the seeks and reads that call performed, in order
    seen        \* an earlier read_entry call on this Package, kept to compare

vars == <<source, pos, mounted, header, entries, toc, lastCall, lastResult,
          lastIO, seen>>

----------------------------------------------------------------------------
(* Program constants *)

ADAT_MAGIC == <<65, 68, 65, 84>>
ADAT_ENTRY_SIZE == 128 + 4 + 4 + 4 + 4
ADAT_VERSION == 9
HEADER_SIZE == 16
NAME_SIZE == 128

----------------------------------------------------------------------------
(* Small helpers *)

Min(a, b) == IF a <= b THEN a ELSE b

Zeros(n) == [i \in 1..n |-> 0]

NoHeader == [magic |-> 0, toc_offset |-> 0, toc_length |-> 0, version |-> 0]

NoError == [kind |-> "none", msg |-> "", found |-> <<>>]

IoError(kind, msg, found) == [kind |-> kind, msg |-> msg, found |-> found]

Ok(v) == [ok |-> TRUE, val |-> v, err |-> NoError]

Err(e) == [ok |-> FALSE, val |-> <<>>, err |-> e]

----------------------------------------------------------------------------
(* u32::from_le_bytes over a 4-byte slice *)

u32le_from_slice(acc) ==
    acc[1] + 256 * acc[2] + 65536 * acc[3] + 16777216 * acc[4]

----------------------------------------------------------------------------
(* The cursor: std::io::Seek and std::io::Read::read_exact over `source`.  *)
(* A cursor value is [pos, log]; log records the operations performed.     *)
(* A seek past the end is allowed.  A read_exact that cannot be filled     *)
(* fails with UnexpectedEof after consuming what was left, as File and     *)
(* io::Cursor do, so the position ends at the end of the source.           *)

Seek(c, p) ==
    [pos |-> p, log |-> Append(c.log, [op |-> "seek", at |-> p, n |-> 0])]

ReadExact(src, c, n) ==
    LET avail == IF c.pos >= Len(src) THEN 0 ELSE Len(src) - c.pos
        rec   == [op |-> "read", at |-> c.pos, n |-> n]
    IN  IF n <= avail
        THEN [ok |-> TRUE,
              bytes |-> SubSeq(src, c.pos + 1, c.pos + n),
              cur |-> [pos |-> c.pos + n, log |-> Append(c.log, rec)]]
        ELSE [ok |-> FALSE,
              bytes |-> <<>>,
              cur |-> [pos |-> IF c.pos >= Len(src) THEN c.pos ELSE Len(src),
                       log |-> Append(c.log, rec)]]

UnexpectedEof == IoError("UnexpectedEof", "failed to fill whole buffer", <<>>)

----------------------------------------------------------------------------
(* core::str::from_utf8: is the byte string well-formed UTF-8?             *)
(* A string is well formed when every byte is ASCII, or a lead byte        *)
(* followed by the continuation bytes its sequence needs, or one of those  *)
(* continuation bytes.                                                     *)

IsCont(b, i) == i <= Len(b) /\ b[i] >= 128 /\ b[i] <= 191

InRange(b, i, lo, hi) == i <= Len(b) /\ b[i] >= lo /\ b[i] <= hi

(* the width of the sequence a lead byte opens; 0 when it opens none *)
Utf8Width(x) ==
    IF x < 128 THEN 1
    ELSE IF x >= 194 /\ x <= 223 THEN 2
    ELSE IF x >= 224 /\ x <= 239 THEN 3
    ELSE IF x >= 240 /\ x <= 244 THEN 4
    ELSE 0

(* the sequence opened at i is complete and in range *)
Utf8SequenceAt(b, i) ==
    LET x == b[i] IN
    IF x < 128 THEN TRUE
    ELSE IF x >= 194 /\ x <= 223 THEN IsCont(b, i + 1)
    ELSE IF x = 224 THEN InRange(b, i + 1, 160, 191) /\ IsCont(b, i + 2)
    ELSE IF x = 237 THEN InRange(b, i + 1, 128, 159) /\ IsCont(b, i + 2)
    ELSE IF x >= 225 /\ x <= 239 THEN IsCont(b, i + 1) /\ IsCont(b, i + 2)
    ELSE IF x = 240
         THEN InRange(b, i + 1, 144, 191) /\ IsCont(b, i + 2) /\ IsCont(b, i + 3)
    ELSE IF x >= 241 /\ x <= 243
         THEN IsCont(b, i + 1) /\ IsCont(b, i + 2) /\ IsCont(b, i + 3)
    ELSE IF x = 244
         THEN InRange(b, i + 1, 128, 143) /\ IsCont(b, i + 2) /\ IsCont(b, i + 3)
    ELSE FALSE

(* the continuation byte at i belongs to a sequence opened just before it *)
Utf8Covered(b, i) ==
    \E j \in 1..3 :
        /\ i - j >= 1
        /\ b[i - j] >= 194
        /\ Utf8Width(b[i - j]) > j
        /\ \A k \in 1..(j - 1) : IsCont(b, i - k)

from_utf8(b) ==
    \A i \in 1..Len(b) :
        IF b[i] >= 128 /\ b[i] <= 191 THEN Utf8Covered(b, i)
        ELSE Utf8SequenceAt(b, i)

(* str::trim_end_matches(char::from(0)) on the bytes of a valid string:    *)
(* everything up to the last byte that is not NUL                          *)
trim_end_matches(s) ==
    LET keep == {i \in 1..Len(s) : s[i] # 0}
    IN  IF keep = {} THEN <<>>
        ELSE SubSeq(s, 1, CHOOSE i \in keep : \A j \in keep : j <= i)

----------------------------------------------------------------------------
(* miniz_oxide::inflate::decompress_to_vec_zlib_with_limit.                *)
(* The zlib framing (2-byte header, Adler-32 trailer) and deflate stored   *)
(* blocks (BTYPE 00) and the reserved block type (BTYPE 11) are modelled   *)
(* bit for bit; the payloads drawn in Init use no Huffman blocks.          *)

ADLER_MOD == 65536 - 15

RECURSIVE AdlerA(_, _)
AdlerA(data, n) ==
    IF n = 0 THEN 1 ELSE (AdlerA(data, n - 1) + data[n]) % ADLER_MOD

RECURSIVE AdlerB(_, _)
AdlerB(data, n) ==
    IF n = 0 THEN 0 ELSE (AdlerB(data, n - 1) + AdlerA(data, n)) % ADLER_MOD

(* the four trailer bytes, big-endian: (b << 16) | a *)
Adler32Bytes(data) ==
    LET a == AdlerA(data, Len(data))
        b == AdlerB(data, Len(data))
    IN  <<b \div 256, b % 256, a \div 256, a % 256>>

ZlibHeaderOk(cmf, flg) ==
    /\ (cmf * 256 + flg) % 31 = 0
    /\ (flg \div 32) % 2 = 0
    /\ cmf % 16 = 8
    /\ cmf \div 16 <= 7

Inflated(status, out) == [status |-> status, out |-> out]

(* i is the index of the next block header byte; out is what was produced *)
RECURSIVE InflateBlocks(_, _, _, _)
InflateBlocks(input, i, out, limit) ==
    IF i > Len(input) THEN Inflated("FailedCannotMakeProgress", out)
    ELSE LET bfinal == input[i] % 2
             btype  == (input[i] \div 2) % 4
         IN
         IF btype = 3 THEN Inflated("Failed", out)
         ELSE IF btype # 0 THEN Inflated("HuffmanBlock", out)
         ELSE IF i + 4 > Len(input)
              THEN Inflated("FailedCannotMakeProgress", out)
         ELSE LET len   == input[i + 1] + 256 * input[i + 2]
                  nlen  == input[i + 3] + 256 * input[i + 4]
                  avail == Len(input) - (i + 4)
                  room  == limit - Len(out)
                  n     == Min(len, Min(avail, room))
                  out2  == out \o SubSeq(input, i + 5, i + 4 + n)
                  next  == i + 5 + len
              IN
              IF len # 65535 - nlen THEN Inflated("Failed", out)
              ELSE IF n < len
                   THEN IF n = room
                        THEN Inflated("HasMoreOutput", out2)
                        ELSE Inflated("FailedCannotMakeProgress", out2)
              ELSE IF bfinal = 0 THEN InflateBlocks(input, next, out2, limit)
              ELSE IF next + 3 > Len(input)
                   THEN Inflated("FailedCannotMakeProgress", out2)
              ELSE IF SubSeq(input, next, next + 3) # Adler32Bytes(out2)
                   THEN Inflated("Adler32Mismatch", out2)
              ELSE Inflated("Done", out2)

(* mutant: the output cap is not passed on *)
decompress_to_vec_zlib_NoLimit(input, max_output_size) ==
    IF Len(input) < 2 THEN Inflated("FailedCannotMakeProgress", <<>>)
    ELSE IF ~ZlibHeaderOk(input[1], input[2]) THEN Inflated("Failed", <<>>)
    ELSE InflateBlocks(input, 3, <<>>, Len(input))

decompress_to_vec_zlib_with_limit(input, max_output_size) ==
    IF Len(input) < 2 THEN Inflated("FailedCannotMakeProgress", <<>>)
    ELSE IF ~ZlibHeaderOk(input[1], input[2]) THEN Inflated("Failed", <<>>)
    ELSE InflateBlocks(input, 3, <<>>, max_output_size)

----------------------------------------------------------------------------
(* PackageEntry *)

get_name(entry) ==
    IF from_utf8(entry.name)
    THEN Ok(trim_end_matches(entry.name))
    ELSE Err(IoError("Other", "Utf8Error", <<>>))

(* mutant: the payload is read from wherever the cursor stands *)
PackageEntry_read_entry_NoSeek(src, entry, c) ==
    LET r  == ReadExact(src, c, entry.compressed_length)
        d  == decompress_to_vec_zlib_with_limit(r.bytes, entry.length)
    IN  IF ~r.ok THEN [res |-> Err(UnexpectedEof), cur |-> r.cur]
        ELSE IF d.status = "Done" THEN [res |-> Ok(d.out), cur |-> r.cur]
        ELSE [res |-> Err(IoError("Other", d.status, <<>>)), cur |-> r.cur]

(* PackageEntry::read_entry: returns [res, cur] *)
PackageEntry_read_entry(src, entry, c) ==
    LET c1 == Seek(c, entry.offset)
        r  == ReadExact(src, c1, entry.compressed_length)
        d  == decompress_to_vec_zlib_with_limit(r.bytes, entry.length)
    IN  IF ~r.ok THEN [res |-> Err(UnexpectedEof), cur |-> r.cur]
        ELSE IF d.status = "Done" THEN [res |-> Ok(d.out), cur |-> r.cur]
        ELSE [res |-> Err(IoError("Other", d.status, <<>>)), cur |-> r.cur]

----------------------------------------------------------------------------
(* mutant: the version is checked before the magic *)
read_package_header_VersionFirst(src, c) ==
    LET r == ReadExact(src, c, HEADER_SIZE)
        b == r.bytes
        h == [magic      |-> u32le_from_slice(SubSeq(b, 1, 4)),
              toc_offset |-> u32le_from_slice(SubSeq(b, 5, 8)),
              toc_length |-> u32le_from_slice(SubSeq(b, 9, 12)),
              version    |-> u32le_from_slice(SubSeq(b, 13, 16))]
    IN  IF ~r.ok
        THEN [ok |-> FALSE, header |-> NoHeader, err |-> UnexpectedEof,
              cur |-> r.cur]
        ELSE IF h.version # ADAT_VERSION
        THEN [ok |-> FALSE, header |-> NoHeader,
              err |-> IoError("Other", "ADAT version mismatch, expected 9",
                              <<h.version>>),
              cur |-> r.cur]
        ELSE IF SubSeq(b, 1, 4) # ADAT_MAGIC
        THEN [ok |-> FALSE, header |-> NoHeader,
              err |-> IoError("Other", "ADAT magic mismatch", SubSeq(b, 1, 4)),
              cur |-> r.cur]
        ELSE [ok |-> TRUE, header |-> h, err |-> NoError, cur |-> r.cur]

(* PackageHeader::read_package_header: returns [ok, header, err, cur] *)

read_package_header(src, c) ==
    LET r == ReadExact(src, c, HEADER_SIZE)
        b == r.bytes
        h == [magic      |-> u32le_from_slice(SubSeq(b, 1, 4)),
              toc_offset |-> u32le_from_slice(SubSeq(b, 5, 8)),
              toc_length |-> u32le_from_slice(SubSeq(b, 9, 12)),
              version    |-> u32le_from_slice(SubSeq(b, 13, 16))]
    IN  IF ~r.ok
        THEN [ok |-> FALSE, header |-> NoHeader, err |-> UnexpectedEof,
              cur |-> r.cur]
        ELSE IF SubSeq(b, 1, 4) # ADAT_MAGIC
        THEN [ok |-> FALSE, header |-> NoHeader,
              err |-> IoError("Other", "ADAT magic mismatch", SubSeq(b, 1, 4)),
              cur |-> r.cur]
        ELSE IF h.version # ADAT_VERSION
        THEN [ok |-> FALSE, header |-> NoHeader,
              err |-> IoError("Other", "ADAT version mismatch, expected 9",
                              <<h.version>>),
              cur |-> r.cur]
        ELSE [ok |-> TRUE, header |-> h, err |-> NoError, cur |-> r.cur]

(* PackageEntry::read_package_entry: returns [ok, entry, cur] *)
NoEntry ==
    [name |-> Zeros(NAME_SIZE), offset |-> 0, length |-> 0,
     compressed_length |-> 0, u0 |-> 0]

read_package_entry(src, c) ==
    LET r1 == ReadExact(src, c, NAME_SIZE)
        r2 == ReadExact(src, r1.cur, 16)
        b  == r2.bytes
    IN  IF ~r1.ok THEN [ok |-> FALSE, entry |-> NoEntry, cur |-> r1.cur]
        ELSE IF ~r2.ok THEN [ok |-> FALSE, entry |-> NoEntry, cur |-> r2.cur]
        ELSE [ok |-> TRUE,
              entry |-> [name |-> r1.bytes,
                         offset |-> u32le_from_slice(SubSeq(b, 1, 4)),
                         length |-> u32le_from_slice(SubSeq(b, 5, 8)),
                         compressed_length |-> u32le_from_slice(SubSeq(b, 9, 12)),
                         u0 |-> u32le_from_slice(SubSeq(b, 13, 16))],
              cur |-> r2.cur]

(* PackageEntry::read_package_entries: returns [ok, list, cur] *)
RECURSIVE ReadEntriesLoop(_, _, _, _)
ReadEntriesLoop(src, c, remaining, acc) ==
    IF remaining = 0 THEN [ok |-> TRUE, list |-> acc, cur |-> c]
    ELSE LET r == read_package_entry(src, c)
         IN  IF ~r.ok THEN [ok |-> FALSE, list |-> <<>>, cur |-> r.cur]
             ELSE ReadEntriesLoop(src, r.cur, remaining - 1,
                                  Append(acc, r.entry))

read_package_entries(src, c, entry_count) ==
    ReadEntriesLoop(src, c, entry_count, <<>>)

----------------------------------------------------------------------------
(* The index: HashMap<String, PackageEntry> as a function on its key set *)

EmptyMap == [k \in {} |-> NoEntry]

(* mutant: a key already present keeps its first descriptor *)
HashMapInsert_KeepFirst(map, key, entry) ==
    [k \in DOMAIN map \cup {key} |-> IF k \in DOMAIN map THEN map[k] ELSE entry]

HashMapInsert(map, key, entry) ==
    [k \in DOMAIN map \cup {key} |-> IF k = key THEN entry ELSE map[k]]

(* mutant: a record whose name does not decode is left out of the index *)
RECURSIVE BuildEntryMap_SkipInvalid(_, _, _)
BuildEntryMap_SkipInvalid(list, i, map) ==
    IF i > Len(list) THEN [ok |-> TRUE, map |-> map, err |-> NoError]
    ELSE LET path == get_name(list[i])
         IN  IF ~path.ok THEN BuildEntryMap_SkipInvalid(list, i + 1, map)
             ELSE BuildEntryMap_SkipInvalid(list, i + 1,
                                            HashMapInsert(map, path.val, list[i]))

(* the `for entry in entries` loop of mount_from_cursor: [ok, map] *)
RECURSIVE BuildEntryMap(_, _, _)
BuildEntryMap(list, i, map) ==
    IF i > Len(list) THEN [ok |-> TRUE, map |-> map, err |-> NoError]
    ELSE LET path == get_name(list[i])
         IN  IF ~path.ok THEN [ok |-> FALSE, map |-> EmptyMap, err |-> path.err]
             ELSE BuildEntryMap(list, i + 1,
                                HashMapInsert(map, path.val, list[i]))

(* Package::mount_from_cursor: returns [ok, header, entries, list, err, cur] *)
MountFailed(e, c) ==
    [ok |-> FALSE, header |-> NoHeader, entries |-> EmptyMap, list |-> <<>>,
     err |-> e, cur |-> c]

(* mutant: an empty table of contents is not refused *)
mount_from_cursor_NoEmptyCheck(src, c) ==
    LET c1 == Seek(c, 0)
        h  == read_package_header(src, c1)
        entry_count == h.header.toc_length \div ADAT_ENTRY_SIZE
        c2 == Seek(h.cur, h.header.toc_offset)
        es == read_package_entries(src, c2, entry_count)
        m  == BuildEntryMap(es.list, 1, EmptyMap)
    IN  IF ~h.ok THEN MountFailed(h.err, h.cur)
        ELSE IF ~es.ok THEN MountFailed(UnexpectedEof, es.cur)
        ELSE IF ~m.ok THEN MountFailed(m.err, es.cur)
        ELSE [ok |-> TRUE, header |-> h.header, entries |-> m.map,
              list |-> es.list, err |-> NoError, cur |-> es.cur]

(* mutant: the records are read from where the header ended *)
mount_from_cursor_NoTocSeek(src, c) ==
    LET c1 == Seek(c, 0)
        h  == read_package_header(src, c1)
        entry_count == h.header.toc_length \div ADAT_ENTRY_SIZE
        es == read_package_entries(src, h.cur, entry_count)
        m  == BuildEntryMap(es.list, 1, EmptyMap)
    IN  IF ~h.ok THEN MountFailed(h.err, h.cur)
        ELSE IF entry_count = 0
        THEN MountFailed(IoError("Other", "empty toc", <<>>), h.cur)
        ELSE IF ~es.ok THEN MountFailed(UnexpectedEof, es.cur)
        ELSE IF ~m.ok THEN MountFailed(m.err, es.cur)
        ELSE [ok |-> TRUE, header |-> h.header, entries |-> m.map,
              list |-> es.list, err |-> NoError, cur |-> es.cur]

mount_from_cursor(src, c) ==
    LET c1 == Seek(c, 0)
        h  == read_package_header(src, c1)
        entry_count == h.header.toc_length \div ADAT_ENTRY_SIZE
        c2 == Seek(h.cur, h.header.toc_offset)
        es == read_package_entries(src, c2, entry_count)
        m  == BuildEntryMap(es.list, 1, EmptyMap)
    IN  IF ~h.ok THEN MountFailed(h.err, h.cur)
        ELSE IF entry_count = 0
        THEN MountFailed(IoError("Other", "empty toc", <<>>), h.cur)
        ELSE IF ~es.ok THEN MountFailed(UnexpectedEof, es.cur)
        ELSE IF ~m.ok THEN MountFailed(m.err, es.cur)
        ELSE [ok |-> TRUE, header |-> h.header, entries |-> m.map,
              list |-> es.list, err |-> NoError, cur |-> es.cur]

----------------------------------------------------------------------------
(* The sources drawn in Init: containers laid out as                       *)
(*   header (16 bytes) | gap | table of contents | payload area            *)
(* together with damaged variants of them.                                 *)

MaxEntries == 2     \* most TOC records written into a container

U32Bytes(v) ==
    <<v % 256, (v \div 256) % 256, (v \div 65536) % 256, (v \div 16777216) % 256>>

PadName(s) == s \o Zeros(NAME_SIZE - Len(s))

(* one stored deflate block: header byte, LEN, NLEN, data *)
StoredBlock(bfinal, data) ==
    <<bfinal, Len(data) % 256, Len(data) \div 256,
      (65535 - Len(data)) % 256, (65535 - Len(data)) \div 256>> \o data

(* "hi" as a zlib stream of two stored blocks *)
PayloadText ==
    <<120, 1>> \o StoredBlock(0, <<104>>) \o StoredBlock(1, <<105>>)
        \o Adler32Bytes(<<104, 105>>)

(* two bytes that are not UTF-8, as a zlib stream of one stored block *)
PayloadBinary ==
    <<120, 1>> \o StoredBlock(1, <<255, 65>>) \o Adler32Bytes(<<255, 65>>)

(* a stream whose Adler-32 trailer is wrong *)
PayloadBadSum ==
    <<120, 1>> \o StoredBlock(1, <<104, 105>>) \o <<0, 0, 0, 0>>

PayloadArea == PayloadText \o PayloadBinary \o PayloadBadSum

Gap == <<0, 0, 0, 0>>

TocStart == HEADER_SIZE + Len(Gap)

Record(name, offset, length, compressed_length, u0) ==
    PadName(name) \o U32Bytes(offset) \o U32Bytes(length)
        \o U32Bytes(compressed_length) \o U32Bytes(u0)

NameA == <<97>>
NameB == <<98>>
NameAB == <<97, 0, 98>>
NameE == <<195, 169>>
NameBadTail == <<97, 0, 255>>
NameAbsent == <<97, 0>>

(* the records a TOC is written from; base is where the payload area starts *)
Records(base) ==
    LET OffText   == base
        OffBinary == OffText + Len(PayloadText)
        OffBadSum == OffBinary + Len(PayloadBinary)
    IN
    { Record(NameA, OffText, 2, Len(PayloadText), 255),     \* as declared
      Record(NameA, OffText, 3, Len(PayloadText), 0),       \* inflates to less
      Record(NameB, OffText, 1, Len(PayloadText), 0),       \* inflates to more
      Record(NameAB, OffBinary, 2, Len(PayloadBinary), 0),  \* not text
      Record(NameE, OffBadSum, 2, Len(PayloadBadSum), 0),   \* corrupt
      Record(NameB, OffText, 2, 1000, 0),                   \* payload past the end
      Record(NameBadTail, OffText, 2, Len(PayloadText), 0) }  \* name not UTF-8

RECURSIVE Flatten(_)
Flatten(recs) ==
    IF Len(recs) = 0 THEN <<>> ELSE Head(recs) \o Flatten(Tail(recs))

HeaderBytes(magic, toc_offset, toc_length, version) ==
    magic \o U32Bytes(toc_offset) \o U32Bytes(toc_length) \o U32Bytes(version)

BadMagic == <<65, 68, 65, 85>>

(* the containers written over a TOC of the given records *)
Containers(recs) ==
    LET len  == ADAT_ENTRY_SIZE * Len(recs)
        body == Gap \o Flatten(recs) \o PayloadArea
        good == HeaderBytes(ADAT_MAGIC, TocStart, len, ADAT_VERSION) \o body
    IN  { good,
          HeaderBytes(BadMagic, TocStart, len, ADAT_VERSION) \o body,
          HeaderBytes(BadMagic, TocStart, len, 8) \o body,
          HeaderBytes(ADAT_MAGIC, TocStart, len, 8) \o body,
          HeaderBytes(ADAT_MAGIC, TocStart, len + 1, ADAT_VERSION) \o body,
          HeaderBytes(ADAT_MAGIC, TocStart, 100, ADAT_VERSION) \o body,
          HeaderBytes(ADAT_MAGIC, TocStart, 0, ADAT_VERSION) \o body,
          HeaderBytes(ADAT_MAGIC, TocStart, len + ADAT_ENTRY_SIZE, ADAT_VERSION)
              \o body,
          SubSeq(good, 1, TocStart + len - 10),
          SubSeq(good, 1, 10) }

TocLists ==
    UNION { [1..n -> Records(TocStart + ADAT_ENTRY_SIZE * n)] : n \in 1..MaxEntries }

Sources == UNION { Containers(recs) : recs \in TocLists }

StartPos == 7        \* where the caller left the cursor before the first mount

----------------------------------------------------------------------------
(* State machine *)

NoCall == [op |-> "none", arg |-> <<>>]

Call(op, arg) == [op |-> op, arg |-> arg]

(* seen is an observer, not program state: any one read_entry call of a   *)
(* Package's life may be the one kept                                      *)
NotSeen == [kept |-> FALSE, later |-> FALSE, name |-> <<>>, res |-> Ok(<<>>)]

(* another call was made after the one kept *)
Later(s) == IF s.kept THEN [s EXCEPT !.later = TRUE] ELSE s

Init ==
    /\ source \in Sources
    /\ pos = StartPos
    /\ mounted = FALSE
    /\ header = NoHeader
    /\ entries = EmptyMap
    /\ toc = <<>>
    /\ lastCall = NoCall
    /\ lastResult = Ok(<<>>)
    /\ lastIO = <<>>
    /\ seen = NotSeen

(* Package::mount_from_cursor(&mut cursor) *)
Mount ==
    /\ ~mounted
    /\ LET m == mount_from_cursor(source, [pos |-> pos, log |-> <<>>])
       IN  /\ mounted' = m.ok
           /\ header' = m.header
           /\ entries' = m.entries
           /\ toc' = m.list
           /\ pos' = m.cur.pos
           /\ lastIO' = m.cur.log
           /\ lastResult' = IF m.ok THEN Ok(<<>>) ELSE Err(m.err)
    /\ lastCall' = Call("mount_from_cursor", <<>>)
    /\ seen' = NotSeen
    /\ UNCHANGED source

(* every order a Vec of the keys can come in *)
Orderings(S) ==
    { f \in [1..Cardinality(S) -> S] : \A k \in S : \E i \in DOMAIN f : f[i] = k }

(* Package::list_entries(&self) *)
list_entries ==
    /\ mounted
    /\ \E names \in Orderings(DOMAIN entries) : lastResult' = Ok(names)
    /\ lastCall' = Call("list_entries", <<>>)
    /\ lastIO' = <<>>
    /\ seen' = Later(seen)
    /\ UNCHANGED <<source, pos, mounted, header, entries, toc>>

(* mutant: the cursor is rewound before the name is looked up *)
Package_read_entry_SeekFirst(src, map, entry_path, c) ==
    IF entry_path \notin DOMAIN map
    THEN [res |-> Err(IoError("Other", "entry not found", <<>>)),
          cur |-> Seek(c, 0)]
    ELSE PackageEntry_read_entry(src, map[entry_path], Seek(c, 0))

(* Package::read_entry(&mut self, entry_path): [res, cur] *)
Package_read_entry(src, map, entry_path, c) ==
    IF entry_path \notin DOMAIN map
    THEN [res |-> Err(IoError("Other", "entry not found", <<>>)), cur |-> c]
    ELSE PackageEntry_read_entry(src, map[entry_path], c)

(* Package::read_text_entry(&mut self, entry_path): [res, cur] *)
Package_read_text_entry(src, map, entry_path, c) ==
    LET r == Package_read_entry(src, map, entry_path, c)
    IN  IF ~r.res.ok THEN r
        ELSE IF from_utf8(r.res.val) THEN r
        ELSE [res |-> Err(IoError("Other", "FromUtf8Error", <<>>)),
              cur |-> r.cur]

CallNames == DOMAIN entries \cup {NameAbsent}

(* mutant: an entry whose read failed is dropped from the index *)
read_entry_Evicting(entry_path) ==
    /\ mounted
    /\ LET r == Package_read_entry(source, entries, entry_path,
                                   [pos |-> pos, log |-> <<>>])
       IN  /\ lastResult' = r.res
           /\ pos' = r.cur.pos
           /\ lastIO' = r.cur.log
           /\ entries' = IF r.res.ok THEN entries
                         ELSE [k \in DOMAIN entries \ {entry_path} |-> entries[k]]
           /\ \/ seen' = Later(seen)
              \/ /\ ~seen.kept
                 /\ seen' = [kept |-> TRUE, later |-> FALSE,
                              name |-> entry_path, res |-> r.res]
    /\ lastCall' = Call("read_entry", entry_path)
    /\ UNCHANGED <<source, mounted, header, toc>>

read_entry(entry_path) ==
    /\ mounted
    /\ LET r == Package_read_entry(source, entries, entry_path,
                                   [pos |-> pos, log |-> <<>>])
       IN  /\ lastResult' = r.res
           /\ pos' = r.cur.pos
           /\ lastIO' = r.cur.log
           /\ \/ seen' = Later(seen)
              \/ /\ ~seen.kept
                 /\ seen' = [kept |-> TRUE, later |-> FALSE,
                              name |-> entry_path, res |-> r.res]
    /\ lastCall' = Call("read_entry", entry_path)
    /\ UNCHANGED <<source, mounted, header, entries, toc>>

read_text_entry(entry_path) ==
    /\ mounted
    /\ LET r == Package_read_text_entry(source, entries, entry_path,
                                        [pos |-> pos, log |-> <<>>])
       IN  /\ lastResult' = r.res
           /\ pos' = r.cur.pos
           /\ lastIO' = r.cur.log
    /\ lastCall' = Call("read_text_entry", entry_path)
    /\ seen' = Later(seen)
    /\ UNCHANGED <<source, mounted, header, entries, toc>>

(* the Package goes out of scope; the caller has the cursor back *)
Drop ==
    /\ mounted
    /\ mounted' = FALSE
    /\ header' = NoHeader
    /\ entries' = EmptyMap
    /\ toc' = <<>>
    /\ seen' = NotSeen
    /\ lastCall' = Call("drop", <<>>)
    /\ lastResult' = Ok(<<>>)
    /\ lastIO' = <<>>
    /\ UNCHANGED <<source, pos>>

Next ==
    \/ Mount
    \/ list_entries
    \/ \E n \in CallNames : read_entry(n)
    \/ \E n \in CallNames : read_text_entry(n)
    \/ Drop

Spec == Init /\ [][Next]_vars

----------------------------------------------------------------------------
(* What the container says, read straight from the bytes of the source.   *)
(* Records are numbered from 0.                                            *)

SrcHasHeader == Len(source) >= HEADER_SIZE

SrcMagic == SubSeq(source, 1, 4)

SrcTocOffset == u32le_from_slice(SubSeq(source, 5, 8))

SrcTocLength == u32le_from_slice(SubSeq(source, 9, 12))

SrcVersion == u32le_from_slice(SubSeq(source, 13, 16))

SrcHeaderValid ==
    SrcHasHeader /\ SrcMagic = ADAT_MAGIC /\ SrcVersion = ADAT_VERSION

SrcEntryCount == SrcTocLength \div ADAT_ENTRY_SIZE

SrcTocPresent == Len(source) >= SrcTocOffset + ADAT_ENTRY_SIZE * SrcEntryCount

SrcRecord(i) ==
    SubSeq(source, SrcTocOffset + ADAT_ENTRY_SIZE * i + 1,
                   SrcTocOffset + ADAT_ENTRY_SIZE * (i + 1))

SrcDescriptor(i) ==
    LET r == SrcRecord(i)
    IN  [name |-> SubSeq(r, 1, 128),
         offset |-> u32le_from_slice(SubSeq(r, 129, 132)),
         length |-> u32le_from_slice(SubSeq(r, 133, 136)),
         compressed_length |-> u32le_from_slice(SubSeq(r, 137, 140)),
         u0 |-> u32le_from_slice(SubSeq(r, 141, 144))]

SrcTrimmedName(i) == trim_end_matches(SrcDescriptor(i).name)

SrcNames == { SrcTrimmedName(i) : i \in 0..(SrcEntryCount - 1) }

(* the last record, in TOC order, that carries the name *)
SrcLastWith(name) ==
    CHOOSE i \in 0..(SrcEntryCount - 1) :
        /\ SrcTrimmedName(i) = name
        /\ \A j \in 0..(SrcEntryCount - 1) : SrcTrimmedName(j) = name => j <= i

AfterMount == lastCall.op = "mount_from_cursor"

AfterRead(name) == mounted /\ lastCall = Call("read_entry", name)

Elements(seq) == { seq[i] : i \in DOMAIN seq }

(* every record the header announces lies inside the source and has a     *)
(* name that decodes                                                       *)
SrcNamesValid ==
    \A i \in 0..(SrcEntryCount - 1) : from_utf8(SrcDescriptor(i).name)

(* the same, for records of the 140 bytes the format description states    *)
StatedEntrySize == 128 + 4 + 4 + 4

StatedEntryCount == SrcTocLength \div StatedEntrySize

StatedTocPresent ==
    Len(source) >= SrcTocOffset + StatedEntrySize * StatedEntryCount

StatedRecord(i) ==
    SubSeq(source, SrcTocOffset + StatedEntrySize * i + 1,
                   SrcTocOffset + StatedEntrySize * (i + 1))

MountFailedWith(msg) ==
    /\ ~lastResult.ok
    /\ lastResult.err.msg = msg
    /\ ~mounted
    /\ header = NoHeader
    /\ entries = EmptyMap

----------------------------------------------------------------------------
----------------------------------------------------------------------------
(* C2: a successful read_entry(name) returns exactly as many bytes as the  *)
(* entry declares as its decompressed length.                              *)
C2_ReadEntryExactLength ==
    \A name \in DOMAIN entries :
        (AfterRead(name) /\ lastResult.ok)
            => Len(lastResult.val) = entries[name].length

----------------------------------------------------------------------------
(* C3: read_entry of a name that is no key of the index fails with "entry  *)
(* not found", performs no seek and no read, and leaves the seek position, *)
(* the header, the index and the source as they were; a read_entry of a    *)
(* present name that follows returns what an earlier read of it returned.  *)
C3_AbsentReadChangesNothing ==
    /\ [][(mounted /\ lastCall'.op = "read_entry"
                   /\ lastCall'.arg \notin DOMAIN entries)
            => /\ ~lastResult'.ok
               /\ lastResult'.err.msg = "entry not found"
               /\ lastIO' = <<>>
               /\ pos' = pos
               /\ mounted'
               /\ header' = header
               /\ entries' = entries
               /\ source' = source]_vars
    /\ [][(mounted /\ lastCall.op = "read_entry"
                   /\ lastCall.arg \notin DOMAIN entries
                   /\ lastCall'.op = "read_entry"
                   /\ lastCall'.arg \in DOMAIN entries
                   /\ seen.kept /\ seen.name = lastCall'.arg)
            => lastResult' = seen.res]_vars

C3_Witness ==
    /\ mounted
    /\ lastCall = Call("read_entry", NameAbsent)
    /\ NameAbsent \notin DOMAIN entries
    /\ NameA \in DOMAIN entries
    /\ ~lastResult.ok
    /\ seen.kept
    /\ seen.res.ok

----------------------------------------------------------------------------
(* C4: after a successful mount the index keys are exactly the NUL-trimmed *)
(* names of the TOC records, each key maps to the descriptor of the last   *)
(* record carrying that name, and list_entries returns each key once.      *)
C4_IndexIsTrimmedNamesLastWins ==
    mounted =>
        /\ DOMAIN entries = SrcNames
        /\ \A name \in DOMAIN entries :
               entries[name] = SrcDescriptor(SrcLastWith(name))
        /\ lastCall.op = "list_entries" =>
               /\ lastResult.ok
               /\ Elements(lastResult.val) = SrcNames
               /\ Len(lastResult.val) = Cardinality(SrcNames)

C4_Witness ==
    /\ mounted
    /\ lastCall.op = "list_entries"
    /\ SrcEntryCount = 2
    /\ Cardinality(DOMAIN entries) = 1
    /\ SrcDescriptor(0) # SrcDescriptor(1)

----------------------------------------------------------------------------
(* C5: a read_entry(name) returns the same bytes, or the same error, as    *)
(* any earlier read_entry(name) on the same Package, whatever calls were   *)
(* made in between and wherever they left the cursor.                      *)
C5_ReadEntryRepeats ==
    (mounted /\ lastCall.op = "read_entry" /\ seen.kept /\ seen.later
             /\ seen.name = lastCall.arg)
        => lastResult = seen.res

C5_Witness ==
    /\ mounted
    /\ lastCall.op = "read_entry"
    /\ seen.kept
    /\ seen.later
    /\ seen.name = lastCall.arg
    /\ lastResult.ok
    /\ Len(lastResult.val) > 0

----------------------------------------------------------------------------
(* C6: over a source that holds a 16-byte header, a magic other than       *)
(* "ADAT" makes mount fail with the magic mismatch (whatever the version), *)
(* and a right magic with a version other than 9 makes it fail with the    *)
(* version mismatch naming the version found; no Package is returned and   *)
(* the source is only seeked to 0 and read up to byte 16.                  *)
OnlyHeaderTouched ==
    /\ pos <= HEADER_SIZE
    /\ \A k \in DOMAIN lastIO :
           /\ lastIO[k].op = "seek" => lastIO[k].at = 0
           /\ lastIO[k].op = "read" => lastIO[k].at + lastIO[k].n <= HEADER_SIZE

C6_HeaderCheckedBeforeToc ==
    (AfterMount /\ SrcHasHeader) =>
        /\ SrcMagic # ADAT_MAGIC =>
               /\ MountFailedWith("ADAT magic mismatch")
               /\ lastResult.err.found = SrcMagic
               /\ OnlyHeaderTouched
        /\ (SrcMagic = ADAT_MAGIC /\ SrcVersion # ADAT_VERSION) =>
               /\ MountFailedWith("ADAT version mismatch, expected 9")
               /\ lastResult.err.found = <<SrcVersion>>
               /\ OnlyHeaderTouched

C6_Witness ==
    /\ AfterMount
    /\ SrcHasHeader
    /\ SrcMagic # ADAT_MAGIC
    /\ SrcVersion = 8
    /\ SrcTocOffset > HEADER_SIZE
    /\ ~lastResult.ok

----------------------------------------------------------------------------
(* C7: read_entry never returns more bytes than the entry declares, and an *)
(* entry whose payload inflates to more than that fails with the           *)
(* decompressor's output-limit error.                                      *)
StoredPayload(e) == SubSeq(source, e.offset + 1, e.offset + e.compressed_length)

PayloadPresent(e) == Len(source) >= e.offset + e.compressed_length

(* what the payload inflates to when nothing caps the output *)
InflatesTo(e) ==
    decompress_to_vec_zlib_with_limit(StoredPayload(e), e.compressed_length)

InflatesBeyond(e) ==
    /\ PayloadPresent(e)
    /\ Len(InflatesTo(e).out) > e.length

C7_ReadEntryBoundedByLength ==
    \A name \in DOMAIN entries :
        AfterRead(name) =>
            /\ lastResult.ok => Len(lastResult.val) <= entries[name].length
            /\ InflatesBeyond(entries[name]) =>
                   /\ ~lastResult.ok
                   /\ lastResult.err.msg = "HasMoreOutput"

C7_Witness ==
    /\ AfterRead(NameB)
    /\ NameB \in DOMAIN entries
    /\ InflatesBeyond(entries[NameB])
    /\ ~lastResult.ok

----------------------------------------------------------------------------
(* C8: while a Package lives, no call changes its header, its index or the *)
(* source, and every call but the release leaves the Package mounted; only *)
(* the seek position moves.                                                *)
C8_HeaderAndIndexFrozen ==
    [][mounted =>
          /\ lastCall'.op # "drop" => mounted'
          /\ mounted' => (header' = header /\ entries' = entries)
          /\ source' = source]_vars

C8_Witness ==
    /\ mounted
    /\ lastCall.op = "read_text_entry"
    /\ ~lastResult.ok
    /\ lastResult.err.msg = "FromUtf8Error"
    /\ pos # SrcTocOffset + ADAT_ENTRY_SIZE * SrcEntryCount

----------------------------------------------------------------------------
(* C9 as stated: records are 140 bytes: the parser runs tocLength \div 140 *)
(* times and descriptor i comes from bytes [tocOffset + 140 i,             *)
(* tocOffset + 140 (i + 1)); a source that ends earlier fails mount.       *)
C9_TocRecordsEvery140 ==
    (AfterMount /\ SrcHeaderValid /\ StatedEntryCount >= 1) =>
        /\ ~StatedTocPresent => (~lastResult.ok /\ ~mounted)
        /\ lastResult.ok =>
               /\ Len(toc) = StatedEntryCount
               /\ \A i \in 0..(StatedEntryCount - 1) :
                      LET r == StatedRecord(i)
                      IN  /\ toc[i + 1].name = SubSeq(r, 1, 128)
                          /\ toc[i + 1].offset = u32le_from_slice(SubSeq(r, 129, 132))
                          /\ toc[i + 1].length = u32le_from_slice(SubSeq(r, 133, 136))
                          /\ toc[i + 1].compressed_length
                                 = u32le_from_slice(SubSeq(r, 137, 140))

(* C9 amended: records are 144 bytes.  After the header is accepted the    *)
(* source is seeked once to tocOffset; the parser then runs                *)
(* tocLength \div 144 times with no seek in between, so descriptor i comes *)
(* from bytes [tocOffset + 144 i, tocOffset + 144 (i + 1)); a source that  *)
(* ends before those records fails mount with an I/O error.                *)
ParserRuns == { k \in DOMAIN lastIO : lastIO[k].op = "read" /\ lastIO[k].n = NAME_SIZE }

C9_TocRecordsReadInSequence ==
    (AfterMount /\ SrcHeaderValid /\ SrcEntryCount >= 1) =>
        /\ Len(lastIO) >= 3
        /\ lastIO[1] = [op |-> "seek", at |-> 0, n |-> 0]
        /\ lastIO[2] = [op |-> "read", at |-> 0, n |-> HEADER_SIZE]
        /\ lastIO[3] = [op |-> "seek", at |-> SrcTocOffset, n |-> 0]
        /\ \A k \in DOMAIN lastIO : k > 3 => lastIO[k].op = "read"
        /\ \A k \in ParserRuns :
               lastIO[k].at = SrcTocOffset + ADAT_ENTRY_SIZE * ((k - 4) \div 2)
        /\ ~SrcTocPresent =>
               /\ MountFailedWith("failed to fill whole buffer")
               /\ lastResult.err.kind = "UnexpectedEof"
        /\ SrcTocPresent => Cardinality(ParserRuns) = SrcEntryCount
        /\ lastResult.ok =>
               /\ Len(toc) = SrcEntryCount
               /\ \A i \in 0..(SrcEntryCount - 1) : toc[i + 1] = SrcDescriptor(i)

C9_Witness ==
    /\ AfterMount
    /\ lastResult.ok
    /\ SrcEntryCount = 2
    /\ SrcTocOffset # HEADER_SIZE
    /\ toc[2] = SrcDescriptor(1)
    /\ toc[1] # toc[2]

----------------------------------------------------------------------------
(* C10 as stated: the TOC holds tocLength \div 140 records of 140 bytes;   *)
(* if the 128-byte name of any of them is not valid UTF-8, mount fails     *)
(* with the name error and returns no Package.                             *)
C10_BadNameAmong140ByteRecords ==
    (/\ AfterMount
     /\ SrcHeaderValid
     /\ StatedEntryCount >= 1
     /\ StatedTocPresent
     /\ \E i \in 0..(StatedEntryCount - 1) :
            ~from_utf8(SubSeq(StatedRecord(i), 1, 128)))
        => MountFailedWith("Utf8Error")

(* C10 amended: the TOC holds tocLength \div 144 records of 144 bytes; if  *)
(* they all lie inside the source and the 128-byte name of any of them is  *)
(* not valid UTF-8 over all its 128 bytes, mount fails with the name error *)
(* and returns no Package, whatever the other records hold.                *)
C10_BadNameFailsMount ==
    (/\ AfterMount
     /\ SrcHeaderValid
     /\ SrcEntryCount >= 1
     /\ SrcTocPresent
     /\ ~SrcNamesValid)
        => MountFailedWith("Utf8Error")

C10_Witness ==
    /\ AfterMount
    /\ SrcHeaderValid
    /\ SrcEntryCount = 2
    /\ SrcTocPresent
    /\ from_utf8(SrcDescriptor(0).name)
    /\ ~from_utf8(SrcDescriptor(1).name)
    /\ SrcDescriptor(1).name[1] < 128
    /\ SrcDescriptor(1).name[2] = 0
    /\ ~lastResult.ok
    /\ ~mounted

====
